---- MODULE Spec2Model ----
(***************************************************************************)
(* A model of sugar3/graphics/palettemenu.py: PaletteMenuBox,              *)
(* PaletteMenuItemSeparator and PaletteMenuItem.                           *)
(*                                                                         *)
(* Toolkit objects are modelled by the part of their state the module      *)
(* reads or writes: a widget's state flags, the block count of each        *)
(* connected signal handler, the allocation, margins, children, and the    *)
(* text of a label.  Strings are sequences of their characters.            *)
(* An optional argument (None or a value) is the empty set or a singleton. *)
(***************************************************************************)
EXTENDS Integers, Sequences, FiniteSets, TLC

\* ------------------------------------------------------------- bounds
MaxDim == 2         \* allocation width and height range over 0..MaxDim
MaxImages == 1      \* set_image calls explored on one item
MaxItems == 2       \* append_item calls explored on one box
MaxPad == 1         \* explicit paddings range over 0..MaxPad
MaxTextLen == 3     \* number of elements of the strings given to set_label

\* ---------------------------------------------------- program constants
\* style.DEFAULT_SPACING: the style module is not part of this file; any value
\* that differs from the explicit paddings explored gives the same behaviour.
DEFAULT_SPACING == 15
\* default of the text_maxlen argument of PaletteMenuItem.__init__
text_maxlen_default == 60

None == {}
Some(v) == {v}
Value(opt) == CHOOSE v \in opt : TRUE

INSENSITIVE == "INSENSITIVE"
PRELIGHT == "PRELIGHT"
StateFlags == {INSENSITIVE, PRELIGHT}

id_bt_release_cb == "button-release-event"
id_enter_notify_cb == "enter-notify-event"
id_leave_notify_cb == "leave-notify-event"
HandlerIds == {id_bt_release_cb, id_enter_notify_cb, id_leave_notify_cb}

VARIABLES
    \* PaletteMenuItem
    flags,              \* the widget's state flags, a subset of StateFlags
    blocked,            \* handler id -> block count of that handler
    connections,        \* signal name -> number of handlers connected to it
    alloc,              \* the current allocation [width, height]
    pointerInside,      \* whether the toolkit last reported the pointer inside
    icon,               \* self.icon
    hbox,               \* children of self._hbox, in order
    label,              \* self.label
    accelerator_label,  \* text of self._accelerator_label
    emitted,            \* signals emitted by the last operation
    lastOp,             \* the last operation and its arguments
    lastSensitive,      \* arguments of the last two set_sensitive calls, oldest first
    args,               \* the arguments the item was constructed with
    \* PaletteMenuBox
    children,           \* children of the box, in order
    calls               \* the append_item calls made so far, in order

itemVars == <<flags, blocked, connections, alloc, pointerInside, icon, hbox,
              label, accelerator_label, emitted, lastOp, lastSensitive, args>>
boxVars == <<children, calls>>
vars == <<itemVars, boxVars>>

\* ------------------------------------------------------------- inputs
Edit == <<"E", "d", "i", "t">>
Floating == <<"F", "l", "o", "a", "t">>
CtrlE == <<"^", "E">>
SmallTexts == {<<>>, Edit}
IconNames == {"toolbar-edit"}
FileNames == {"edit.svg"}
XoColors == {"xo-color"}
Accelerators == {CtrlE}

Opt(S) == {None} \cup {Some(v) : v \in S}

\* every combination of the constructor's arguments
CtorArgs ==
    [text_label : SmallTexts, icon_name : Opt(IconNames),
     text_maxlen : {0, text_maxlen_default}, xo_color : Opt(XoColors),
     file_name : Opt(FileNames), accelerator : Opt(Accelerators)]

\* the constructions of the module's docstring
ExampleArgs ==
    {[text_label |-> Edit, icon_name |-> Some("toolbar-edit"),
      text_maxlen |-> text_maxlen_default, xo_color |-> None,
      file_name |-> None, accelerator |-> None],
     [text_label |-> Floating, icon_name |-> None,
      text_maxlen |-> text_maxlen_default, xo_color |-> None,
      file_name |-> None, accelerator |-> None]}

\* ------------------------------------------------- mutants of __init__
\* file_name taking precedence over icon_name
NewIcon_file_first(icon_name, file_name, xo_color) ==
    IF file_name # None
    THEN Some([source |-> "file", value |-> Value(file_name),
               xo_color |-> IF xo_color # None THEN xo_color ELSE None])
    ELSE IF icon_name # None
    THEN Some([source |-> "icon_name", value |-> Value(icon_name),
               xo_color |-> IF xo_color # None THEN xo_color ELSE None])
    ELSE None

\* the file branch forgetting to apply xo_color
NewIcon_file_untinted(icon_name, file_name, xo_color) ==
    IF icon_name # None
    THEN Some([source |-> "icon_name", value |-> Value(icon_name),
               xo_color |-> IF xo_color # None THEN xo_color ELSE None])
    ELSE IF file_name # None
    THEN Some([source |-> "file", value |-> Value(file_name),
               xo_color |-> None])
    ELSE None

\* ------------------------------------------------- PaletteMenuItem.__init__
\* self.icon after the icon_name / file_name branches: None, or the one Icon
\* built; its xo_color property is assigned only when xo_color is given.
NewIcon(icon_name, file_name, xo_color) ==
    IF icon_name # None
    THEN Some([source |-> "icon_name", value |-> Value(icon_name),
               xo_color |-> IF xo_color # None THEN xo_color ELSE None])
    ELSE IF file_name # None
    THEN Some([source |-> "file", value |-> Value(file_name),
               xo_color |-> IF xo_color # None THEN xo_color ELSE None])
    ELSE None

IconChild == [kind |-> "icon", id |-> 0]
LabelChild == [kind |-> "label", id |-> 0]
AcceleratorChild == [kind |-> "accelerator_label", id |-> 0]
ImageChild(n) == [kind |-> "image", id |-> n]

\* children of self._hbox after construction: the icon if one was built,
\* then the label, then the accelerator label
NewHBox(icon_name, file_name) ==
    (IF icon_name # None THEN <<IconChild>>
     ELSE IF file_name # None THEN <<IconChild>>
     ELSE <<>>) \o <<LabelChild, AcceleratorChild>>

\* Gtk.Label(label=text_label), then the width limit when text_maxlen > 0
NewLabel(text_label, text_maxlen) ==
    [text |-> text_label, use_markup |-> FALSE,
     max_width_chars |-> IF text_maxlen > 0 THEN Some(text_maxlen) ELSE None,
     ellipsize |-> IF text_maxlen > 0 THEN "ELLIPSIZE_MODE_DEFAULT" ELSE "NONE"]

NewAcceleratorLabel(accelerator) ==
    IF accelerator # None THEN Value(accelerator) ELSE <<>>

\* the three connect calls: one handler per signal, none blocked
NewConnections == [h \in HandlerIds |-> 1]
NewBlocked == [h \in HandlerIds |-> 0]

Allocations == [width : 0..MaxDim, height : 0..MaxDim]

ItemInit(a) ==
    /\ icon = NewIcon(a.icon_name, a.file_name, a.xo_color)
    /\ hbox = NewHBox(a.icon_name, a.file_name)
    /\ label = NewLabel(a.text_label, a.text_maxlen)
    /\ accelerator_label = NewAcceleratorLabel(a.accelerator)
    /\ connections = NewConnections
    /\ blocked = NewBlocked
    /\ flags = {}
    /\ alloc = [width |-> 0, height |-> 0]
    /\ pointerInside = FALSE
    /\ emitted = {}
    /\ lastOp = [op |-> "init", args |-> a]
    /\ lastSensitive = <<>>
    /\ args = a

BoxInit ==
    /\ children = <<>>
    /\ calls = <<>>

\* ------------------------------------------------- toolkit primitives
\* GObject.handler_block / handler_unblock: a block count per handler; an
\* unblock of a handler that is not blocked leaves it as it is.
handler_block(b, id) == [b EXCEPT ![id] = @ + 1]
handler_unblock(b, id) == [b EXCEPT ![id] = IF @ > 0 THEN @ - 1 ELSE 0]

\* Gtk.Widget.set_state_flags(flags, clear) / unset_state_flags(flags)
set_state_flags(cur, fl, clear) == IF clear THEN fl ELSE cur \cup fl
unset_state_flags(cur, fl) == cur \ fl

\* a connected handler runs when its signal is delivered and it is not blocked
Runs(id) == connections[id] > 0 /\ blocked[id] = 0

\* ------------------------------------------------- mutants of the callbacks
\* a release on the edge of the allocation counting as inside
button_release_cb_inclusive(x, y) ==
    IF 0 <= x /\ x <= alloc.width /\ 0 <= y /\ y <= alloc.height
    THEN {"activate"}
    ELSE {}

\* a leave callback that leaves the flag set
leave_notify_cb_noop(cur) == cur

\* ------------------------------------------------- PaletteMenuItem callbacks
\* __button_release_cb: the signals it emits for a release at (x, y)
button_release_cb(x, y) ==
    IF 0 < x /\ x < alloc.width /\ 0 < y /\ y < alloc.height
    THEN {"activate"}
    ELSE {}

\* __enter_notify_cb: the state flags after it
enter_notify_cb(cur) == set_state_flags(cur, {PRELIGHT}, FALSE)

\* __leave_notify_cb: the state flags after it
leave_notify_cb(cur) == unset_state_flags(cur, {PRELIGHT})

Coords == (0 - 1)..(MaxDim + 1)

\* the toolkit delivers 'button-release-event' with coordinates (x, y)
ButtonReleaseEvent(x, y) ==
    /\ emitted' = IF Runs(id_bt_release_cb) THEN button_release_cb(x, y) ELSE {}
    /\ lastOp' = [op |-> "button_release", x |-> x, y |-> y]
    /\ UNCHANGED <<flags, blocked, connections, alloc, pointerInside, icon,
                   hbox, label, accelerator_label, lastSensitive>>

\* the pointer enters the widget: the toolkit delivers 'enter-notify-event'
EnterNotifyEvent ==
    /\ ~pointerInside
    /\ pointerInside' = TRUE
    /\ flags' = IF Runs(id_enter_notify_cb) THEN enter_notify_cb(flags) ELSE flags
    /\ emitted' = {}
    /\ lastOp' = [op |-> "enter_notify"]
    /\ UNCHANGED <<blocked, connections, alloc, icon, hbox, label,
                   accelerator_label, lastSensitive>>

\* the pointer leaves the widget: the toolkit delivers 'leave-notify-event'
LeaveNotifyEvent ==
    /\ pointerInside
    /\ pointerInside' = FALSE
    /\ flags' = IF Runs(id_leave_notify_cb) THEN leave_notify_cb(flags) ELSE flags
    /\ emitted' = {}
    /\ lastOp' = [op |-> "leave_notify"]
    /\ UNCHANGED <<blocked, connections, alloc, icon, hbox, label,
                   accelerator_label, lastSensitive>>

\* the toolkit gives the widget a new allocation (read by get_allocation)
SizeAllocate(a) ==
    /\ a # alloc
    /\ alloc' = a
    /\ emitted' = {}
    /\ lastOp' = [op |-> "size_allocate"]
    /\ UNCHANGED <<flags, blocked, connections, pointerInside, icon, hbox,
                   label, accelerator_label, lastSensitive>>

\* ------------------------------------------------- mutants of set_sensitive
\* disabling without blocking the button-release handler
set_sensitive_release_unblocked(cur, b, sensitive, clear) ==
    LET is_sensitive == ~(INSENSITIVE \in cur) IN
    IF is_sensitive = sensitive
    THEN [flags |-> cur, blocked |-> b]
    ELSE IF sensitive
    THEN [flags |-> unset_state_flags(cur, {INSENSITIVE}),
          blocked |-> handler_unblock(handler_unblock(b,
                          id_enter_notify_cb), id_leave_notify_cb)]
    ELSE [flags |-> set_state_flags(cur, {INSENSITIVE}, clear),
          blocked |-> handler_block(handler_block(b,
                          id_enter_notify_cb), id_leave_notify_cb)]

\* no early return when the item already has the requested sensitivity
set_sensitive_no_return(cur, b, sensitive, clear) ==
    IF sensitive
    THEN [flags |-> unset_state_flags(cur, {INSENSITIVE}),
          blocked |-> handler_unblock(handler_unblock(handler_unblock(b,
                          id_bt_release_cb), id_enter_notify_cb),
                          id_leave_notify_cb)]
    ELSE [flags |-> set_state_flags(cur, {INSENSITIVE}, clear),
          blocked |-> handler_block(handler_block(handler_block(b,
                          id_bt_release_cb), id_enter_notify_cb),
                          id_leave_notify_cb)]

\* enabling without unblocking the leave handler
set_sensitive_leave_stuck(cur, b, sensitive, clear) ==
    LET is_sensitive == ~(INSENSITIVE \in cur) IN
    IF is_sensitive = sensitive
    THEN [flags |-> cur, blocked |-> b]
    ELSE IF sensitive
    THEN [flags |-> unset_state_flags(cur, {INSENSITIVE}),
          blocked |-> handler_unblock(handler_unblock(b,
                          id_bt_release_cb), id_enter_notify_cb)]
    ELSE [flags |-> set_state_flags(cur, {INSENSITIVE}, clear),
          blocked |-> handler_block(handler_block(handler_block(b,
                          id_bt_release_cb), id_enter_notify_cb),
                          id_leave_notify_cb)]

\* ------------------------------------------------- PaletteMenuItem.set_sensitive
\* The state flags and block counts after set_sensitive(sensitive).  The call
\* set_state_flags(INSENSITIVE) of the disabling branch passes no `clear`
\* argument, so both values of it are outcomes: `clear` is chosen by the caller
\* of this operator.
set_sensitive(cur, b, sensitive, clear) ==
    LET is_sensitive == ~(INSENSITIVE \in cur) IN
    IF is_sensitive = sensitive
    THEN [flags |-> cur, blocked |-> b]
    ELSE IF sensitive
    THEN [flags |-> unset_state_flags(cur, {INSENSITIVE}),
          blocked |-> handler_unblock(handler_unblock(handler_unblock(b,
                          id_bt_release_cb), id_enter_notify_cb),
                          id_leave_notify_cb)]
    ELSE [flags |-> set_state_flags(cur, {INSENSITIVE}, clear),
          blocked |-> handler_block(handler_block(handler_block(b,
                          id_bt_release_cb), id_enter_notify_cb),
                          id_leave_notify_cb)]

SetSensitive(sensitive) ==
    /\ \E clear \in BOOLEAN :
          LET r == set_sensitive(flags, blocked, sensitive, clear) IN
          /\ flags' = r.flags
          /\ blocked' = r.blocked
    /\ emitted' = {}
    /\ lastOp' = [op |-> "set_sensitive", sensitive |-> sensitive,
                  is_sensitive |-> ~(INSENSITIVE \in flags)]
    /\ lastSensitive' = IF lastSensitive = <<>> THEN <<sensitive>>
                        ELSE <<lastSensitive[Len(lastSensitive)], sensitive>>
    /\ UNCHANGED <<connections, alloc, pointerInside, icon, hbox, label,
                   accelerator_label>>

\* ------------------------------------------------- PaletteMenuItem.set_label
\* Elements of the strings given to set_label: the markup-significant
\* characters '&' and '<', a plain character, and what spells the entity
\* "&lt;" after an '&': the entity name "lt", kept as one element, and ';'.
Alphabet == {"&", "<", "a", "lt", ";"}

RECURSIVE StringsOfLen(_)
StringsOfLen(n) ==
    IF n = 0 THEN {<<>>}
    ELSE {Append(s, c) : s \in StringsOfLen(n - 1), c \in Alphabet}

Texts == UNION {StringsOfLen(n) : n \in 0..MaxTextLen}

\* the opening and closing tag set_label puts around the string, each one
\* element of the markup sequence
SpanOpen == "<span foreground=\"#FFFFFF\">"
SpanClose == "</span>"

\* text = '<span foreground="%s">' % ... + text_label + '</span>'
Markup(text_label) == <<SpanOpen>> \o text_label \o <<SpanClose>>

\* The markup parser behind Gtk.Label.set_markup, on the markup sequence m from
\* position i, inside `depth` open elements, with `out` the text read so far:
\* the text content, or a parse error.  '&' must begin an entity ("&lt;" is the
\* one the alphabet spells); '<' must begin a tag, and the alphabet spells no
\* well-formed tag (it has no '>'), so a '<' of the string is an error.
RECURSIVE ParseMarkup(_, _, _, _)
ParseMarkup(m, i, depth, out) ==
    IF i > Len(m) THEN [ok |-> depth = 0, text |-> out]
    ELSE IF m[i] = SpanOpen THEN ParseMarkup(m, i + 1, depth + 1, out)
    ELSE IF m[i] = SpanClose
    THEN IF depth = 0 THEN [ok |-> FALSE, text |-> out]
         ELSE ParseMarkup(m, i + 1, depth - 1, out)
    ELSE IF depth = 0 THEN [ok |-> FALSE, text |-> out]
    ELSE IF m[i] = "<" THEN [ok |-> FALSE, text |-> out]
    ELSE IF m[i] = "&"
    THEN IF i + 2 <= Len(m) /\ SubSeq(m, i, i + 2) = <<"&", "lt", ";">>
         THEN ParseMarkup(m, i + 3, depth, Append(out, "<"))
         ELSE [ok |-> FALSE, text |-> out]
    ELSE ParseMarkup(m, i + 1, depth, Append(out, m[i]))

\* Gtk.Label.set_markup: the label shows the parsed text; on a parse error the
\* toolkit warns and the text shown stays what it was
set_markup(lbl, m) ==
    LET r == ParseMarkup(m, 1, 0, <<>>) IN
    [lbl EXCEPT !.use_markup = TRUE,
                !.text = IF r.ok THEN r.text ELSE @]

set_label(lbl, text_label) == set_markup(lbl, Markup(text_label))

SetLabel(text_label) ==
    /\ label' = set_label(label, text_label)
    /\ emitted' = {}
    /\ lastOp' = [op |-> "set_label", text_label |-> text_label]
    /\ UNCHANGED <<flags, blocked, connections, alloc, pointerInside, icon,
                   hbox, accelerator_label, lastSensitive>>

\* ------------------------------------------------- PaletteMenuItem.set_image
\* self._hbox.append(icon); self._hbox.reorder_child(icon, 0)
set_image(box, w) ==
    LET appended == Append(box, w) IN
    <<appended[Len(appended)]>> \o SubSeq(appended, 1, Len(appended) - 1)

NumImages == Cardinality({i \in 1..Len(hbox) : hbox[i].kind = "image"})

SetImage ==
    /\ NumImages < MaxImages
    /\ hbox' = set_image(hbox, ImageChild(NumImages + 1))
    /\ emitted' = {}
    /\ lastOp' = [op |-> "set_image"]
    /\ UNCHANGED <<flags, blocked, connections, alloc, pointerInside, icon,
                   label, accelerator_label, lastSensitive>>

\* ------------------------------------------------- PaletteMenuItem.set_accelerator
set_accelerator(text) == text

SetAccelerator(text) ==
    /\ accelerator_label' = set_accelerator(text)
    /\ emitted' = {}
    /\ lastOp' = [op |-> "set_accelerator", text |-> text]
    /\ UNCHANGED <<flags, blocked, connections, alloc, pointerInside, icon,
                   hbox, label, lastSensitive>>

\* ------------------------------------------------- mutants of PaletteMenuBox
\* a padding of 0 taken for a missing one (`if not padding`)
wrap_widget_falsy(widget, horizontal_padding, vertical_padding) ==
    LET hp == IF horizontal_padding = None \/ horizontal_padding = {0}
              THEN DEFAULT_SPACING ELSE Value(horizontal_padding)
        vp == IF vertical_padding = None \/ vertical_padding = {0}
              THEN DEFAULT_SPACING ELSE Value(vertical_padding)
        w == [widget EXCEPT !.margin_start = hp, !.margin_end = hp]
    IN [class |-> "Box", orientation |-> "VERTICAL",
        margin_start |-> 0, margin_end |-> 0, margin_top |-> 0,
        margin_bottom |-> 0,
        children |-> <<[class |-> "Box", orientation |-> "HORIZONTAL",
                        margin_start |-> 0, margin_end |-> 0,
                        margin_top |-> vp, margin_bottom |-> vp,
                        children |-> <<w>>]>>]

\* ------------------------------------------------- PaletteMenuBox
MenuItemClass == "PaletteMenuItem"
SeparatorClass == "PaletteMenuItemSeparator"
WidgetClass == "Widget"
BoxClass == "Box"

\* a widget handed to append_item: a menu item (no margins of its own), a
\* separator (PaletteMenuItemSeparator.__init__ sets its top and bottom
\* margins) or any other widget, with the horizontal margins m it came with
NewWidget(class, id, m) ==
    [class |-> class, id |-> id,
     margin_start |-> IF class = WidgetClass THEN m ELSE 0,
     margin_end |-> IF class = WidgetClass THEN m ELSE 0,
     margin_top |-> IF class = SeparatorClass THEN DEFAULT_SPACING ELSE 0,
     margin_bottom |-> IF class = SeparatorClass THEN DEFAULT_SPACING ELSE 0]

NewBox(orientation) ==
    [class |-> BoxClass, orientation |-> orientation,
     margin_start |-> 0, margin_end |-> 0, margin_top |-> 0,
     margin_bottom |-> 0, children |-> <<>>]

\* PaletteMenuBox._wrap_widget
wrap_widget(widget, horizontal_padding, vertical_padding) ==
    LET hp == IF horizontal_padding = None THEN DEFAULT_SPACING
              ELSE Value(horizontal_padding)
        vp == IF vertical_padding = None THEN DEFAULT_SPACING
              ELSE Value(vertical_padding)
        w == [widget EXCEPT !.margin_start = hp, !.margin_end = hp]
        hb == [NewBox("HORIZONTAL") EXCEPT !.margin_top = vp,
                                            !.margin_bottom = vp,
                                            !.children = <<w>>]
    IN [NewBox("VERTICAL") EXCEPT !.children = <<hb>>]

\* mutant: every entry put at the front of the box instead of at its end
append_item_front(ch, item_or_widget, horizontal_padding, vertical_padding) ==
    IF item_or_widget.class = MenuItemClass
       \/ item_or_widget.class = SeparatorClass
    THEN <<item_or_widget>> \o ch
    ELSE <<wrap_widget(item_or_widget, horizontal_padding,
                       vertical_padding)>> \o ch

\* PaletteMenuBox.append_item: the children of the box after the call
append_item(ch, item_or_widget, horizontal_padding, vertical_padding) ==
    IF item_or_widget.class = MenuItemClass
       \/ item_or_widget.class = SeparatorClass
    THEN Append(ch, item_or_widget)
    ELSE Append(ch, wrap_widget(item_or_widget, horizontal_padding,
                                vertical_padding))

Paddings == Opt(0..MaxPad)
PriorMargins == {0, MaxPad + 1}

AppendItem(class, m, hp, vp) ==
    /\ Len(calls) < MaxItems
    /\ LET w == NewWidget(class, Len(calls) + 1, m) IN
       /\ children' = append_item(children, w, hp, vp)
       /\ calls' = Append(calls, [widget |-> w, horizontal_padding |-> hp,
                                  vertical_padding |-> vp])

\* ------------------------------------------------- specifications
\* one menu item, built as in the module's docstring, under every operation
Init == (\E a \in ExampleArgs : ItemInit(a)) /\ BoxInit

Next ==
    \/ (\E x \in Coords, y \in Coords : ButtonReleaseEvent(x, y))
          /\ UNCHANGED <<args, boxVars>>
    \/ EnterNotifyEvent /\ UNCHANGED <<args, boxVars>>
    \/ LeaveNotifyEvent /\ UNCHANGED <<args, boxVars>>
    \/ (\E a \in Allocations : SizeAllocate(a)) /\ UNCHANGED <<args, boxVars>>
    \/ (\E b \in BOOLEAN : SetSensitive(b)) /\ UNCHANGED <<args, boxVars>>
    \/ (\E t \in SmallTexts : SetLabel(t)) /\ UNCHANGED <<args, boxVars>>
    \/ SetImage /\ UNCHANGED <<args, boxVars>>
    \/ (\E t \in Accelerators : SetAccelerator(t)) /\ UNCHANGED <<args, boxVars>>

Spec == Init /\ [][Next]_vars

\* every construction of a menu item, then the content setters
InitCtor == (\E a \in CtorArgs : ItemInit(a)) /\ BoxInit

NextCtor ==
    \/ (\E t \in SmallTexts : SetLabel(t)) /\ UNCHANGED <<args, boxVars>>
    \/ SetImage /\ UNCHANGED <<args, boxVars>>
    \/ (\E t \in Accelerators : SetAccelerator(t)) /\ UNCHANGED <<args, boxVars>>

SpecCtor == InitCtor /\ [][NextCtor]_vars

\* one menu item under set_label with every string of the alphabet
NextLabel == (\E t \in Texts : SetLabel(t)) /\ UNCHANGED <<args, boxVars>>

SpecLabel == Init /\ [][NextLabel]_vars

\* one box under append_item
InitBox == ItemInit(CHOOSE a \in ExampleArgs : a.icon_name # None) /\ BoxInit

NextBox ==
    (\E class \in {MenuItemClass, SeparatorClass, WidgetClass},
        m \in PriorMargins, hp \in Paddings, vp \in Paddings :
            AppendItem(class, m, hp, vp))
    /\ UNCHANGED itemVars

SpecBox == InitBox /\ [][NextBox]_vars

\* ------------------------------------------------- properties
StrictlyInside(x, y) ==
    0 < x /\ x < alloc.width /\ 0 < y /\ y < alloc.height

Enabled == INSENSITIVE \notin flags

\* the argument of the most recent set_sensitive call, if there was one
LastSetSensitive ==
    IF lastSensitive = <<>> THEN None
    ELSE Some(lastSensitive[Len(lastSensitive)])

C2_ActivateOnlyStrictlyInside ==
    /\ "activate" \in emitted =>
          /\ lastOp.op = "button_release"
          /\ 0 < lastOp.x /\ lastOp.x < alloc.width
          /\ 0 < lastOp.y /\ lastOp.y < alloc.height
    /\ lastOp.op # "button_release" => emitted = {}

C2_Witness ==
    /\ lastOp.op = "button_release"
    /\ Enabled
    /\ lastOp.x = alloc.width
    /\ 0 < lastOp.y /\ lastOp.y < alloc.height
    /\ emitted = {}

IsItemClass(c) == c = MenuItemClass \/ c = SeparatorClass

EffectivePadding(p) == IF p = None THEN DEFAULT_SPACING ELSE Value(p)

\* C4: a menu item or separator is inserted as it is, with no wrapper and
\* its margins untouched; any other widget is inserted inside exactly one
\* wrapper that gives it horizontal margins of horizontal_padding and
\* vertical margins of vertical_padding, a padding of None standing for
\* DEFAULT_SPACING and an explicit one (0 included) used as given.  (The
\* wrapper is the vertical box with its horizontal box: the vertical margins
\* sit on the horizontal box, the horizontal ones on the widget inside it.)
C4_PaddingOnlyForWidgets ==
    \A i \in 1..Len(children) :
        LET c == calls[i]
            e == children[i]
        IN IF IsItemClass(c.widget.class)
           THEN e = c.widget
           ELSE /\ e.class = BoxClass
                /\ Len(e.children) = 1
                /\ e.children[1].class = BoxClass
                /\ Len(e.children[1].children) = 1
                /\ LET hb == e.children[1]
                       w == e.children[1].children[1]
                   IN /\ w.class = WidgetClass
                      /\ w.id = c.widget.id
                      /\ w.margin_start = EffectivePadding(c.horizontal_padding)
                      /\ w.margin_end = EffectivePadding(c.horizontal_padding)
                      /\ hb.margin_top = EffectivePadding(c.vertical_padding)
                      /\ hb.margin_bottom = EffectivePadding(c.vertical_padding)

C4_Witness ==
    /\ Len(children) = 2
    /\ calls[1].widget.class = WidgetClass
    /\ calls[1].horizontal_padding = Some(0)
    /\ calls[1].vertical_padding = None
    /\ calls[1].widget.margin_start > 0
    /\ children[1].children[1].children[1].margin_start = 0
    /\ children[1].children[1].margin_top = DEFAULT_SPACING
    /\ calls[2].widget.class = SeparatorClass
    /\ children[2] = calls[2].widget

\* the widget an entry of the box stands for: the entry itself, or the widget
\* inside the wrapper
Wrapped(e) ==
    IF e.class = BoxClass THEN e.children[1].children[1] ELSE e

\* C10: the children of the box are one entry per append_item call, in call
\* order, the i-th being the i-th item itself or the wrapper of the i-th
\* widget, and a call leaves the earlier entries as they were.
C10_ChildrenInCallOrder ==
    /\ [](/\ Len(children) = Len(calls)
          /\ \A i \in 1..Len(children) :
                /\ Wrapped(children[i]).id = calls[i].widget.id
                /\ (children[i].class = BoxClass)
                      <=> ~IsItemClass(calls[i].widget.class))
    /\ [][/\ Len(children') = Len(children) + 1
          /\ SubSeq(children', 1, Len(children)) = children]_vars

C10_Witness ==
    /\ Len(children) = 2
    /\ calls[1].widget.class = WidgetClass
    /\ calls[2].widget.class = MenuItemClass
    /\ children[1].class = BoxClass
    /\ children[2] = calls[2].widget

NumIconChildren ==
    Cardinality({i \in 1..Len(hbox) : hbox[i].kind = "icon"})

\* C5: exactly one of icon by name, icon by file, no icon results from a
\* construction: with icon_name given the one icon attached is the named
\* one, with only file_name given it is the file one, with neither self.icon
\* is None and no icon child is added.
C5_OneIconSource ==
    /\ args.icon_name # None =>
          /\ icon # None
          /\ Value(icon).source = "icon_name"
          /\ Value(icon).value = Value(args.icon_name)
          /\ NumIconChildren = 1
    /\ (args.icon_name = None /\ args.file_name # None) =>
          /\ icon # None
          /\ Value(icon).source = "file"
          /\ Value(icon).value = Value(args.file_name)
          /\ NumIconChildren = 1
    /\ (args.icon_name = None /\ args.file_name = None) =>
          /\ icon = None
          /\ NumIconChildren = 0

C5_Witness ==
    /\ lastOp.op = "init"
    /\ args.icon_name # None
    /\ args.file_name # None
    /\ Value(icon).source = "icon_name"

Tinted == icon # None /\ Value(icon).xo_color # None

\* C6 as stated: an item has an icon attached if and only if a tint has been
\* applied to that icon.
C6_IconIffTint == (icon # None) <=> Tinted

\* C6 amended: a tint is applied exactly when an icon is attached and
\* xo_color is given, and it is then the xo_color given; an icon built without
\* xo_color is attached untinted, and xo_color without an icon tints nothing.
C6_TintIffIconAndColor ==
    /\ Tinted <=> (icon # None /\ args.xo_color # None)
    /\ Tinted => Value(icon).xo_color = args.xo_color

C6_Witness ==
    /\ lastOp.op = "init"
    /\ icon # None
    /\ args.xo_color = None
    /\ ~Tinted

\* C7: after set_label(text) the text the label shows is exactly text.
C7_LabelRoundTrip ==
    lastOp.op = "set_label" => label.text = lastOp.text_label

====
